---- MODULE Spec2Model ----
(***************************************************************************)
(* A model of sled-utils: Database / DbTree / DbBatch (src/src/lib.rs) on  *)
(* top of the sled engine.  Keys and values are byte strings (sequences of *)
(* 0..255); a partition is a finite map from key bytes to value bytes,     *)
(* iterated in ascending lexicographic byte order.                         *)
(***************************************************************************)
EXTENDS Integers, Sequences, FiniteSets, TLC

VARIABLES
    trees,       \* partition name -> (key bytes -> value bytes), the engine's content
    treeNames,   \* sled::Db::tree_names(): the partitions that exist
    handles,     \* names for which a caller holds an Arc<DbTree> of the partition
    stale,       \* names for which a caller holds an Arc<DbTree> of a dropped partition
    batch,       \* the caller's DbBatch: [writes: key -> value, count: u64]
    it,          \* the reader's sled::Iter over one partition, and what it collected
    pending,     \* history: key -> record last inserted into the batch's write-set
    shadow,      \* history: name -> (key -> record last written under that key)
    sinceApply,  \* history: DbBatch::insert calls since creation or the last apply_batch
    scan,        \* history: the writes to the scanned partition during the scan, the
                 \* partition before and after the latest, the entries read so far
    last,        \* history: the last operation, its inputs, result and pre-state
    destroying,  \* the destroy in progress: the names still to drop, and its log
    sinceDestroy, \* history: what the latest destroy dropped and kept, until written again
    opts,        \* the DbOpts given to Database::new
    sledConfig   \* the sled::Config made of it: <<>> before Database::new, then <<config>>

cfgVars == <<opts, sledConfig>>
vars == <<trees, treeNames, handles, stale, batch, it, pending, shadow, sinceApply, scan, last,
          destroying, sinceDestroy, opts, sledConfig>>

-----------------------------------------------------------------------------
(* Bounds *)

\* how many keys of KeyPool the callers use
NumKeys == 2
\* cap on DbBatch.count (a u64 in the code), to keep the state space finite
MaxCount == 3

-----------------------------------------------------------------------------
(* Data: byte strings, records, partition names *)

\* "k1", "k", "k2", "j99": the second is a proper prefix of the first and the third
KeyPool == << <<107, 49>>, <<107>>, <<107, 50>>, <<106, 57, 57>> >>
\* "f1", "f2"
FooPool == << <<102, 49>>, <<102, 50>> >>

Keys == {KeyPool[i] : i \in 1..NumKeys}
Foos == {FooPool[i] : i \in 1..Len(FooPool)}

SLED_DEFAULT_TREE == "__sled__default"
CustomNames == {"foobar", "foobarbaz"}
Names == {SLED_DEFAULT_TREE} \cup CustomNames

\* DbTrees::str: the name carried by DbTrees::Custom
DbTreesStr(name) == name

\* test::TestData { key, foo }, and two record types whose key derivation or
\* serialization fails
TestData == [kind : {"TestData"}, key : Keys, foo : Foos]
BadKeyRecord == [kind |-> "BadKey", key |-> <<>>, foo |-> <<>>]
BadSerRecord == [kind |-> "BadSer", key |-> KeyPool[1], foo |-> <<>>]
Records == TestData \cup {BadKeyRecord, BadSerRecord}

Ok(v) == [ok |-> TRUE, val |-> v]
Err(e) == [ok |-> FALSE, val |-> e]

\* DbKey::key
DbKeyKey(r) == IF r.kind = "BadKey" THEN Err("key") ELSE Ok(r.key)

\* borsh: a u32 is four little-endian bytes
U32LE(n) == << n % 256, (n \div 256) % 256, (n \div 65536) % 256, (n \div 16777216) % 256 >>
FromU32LE(b) == b[1] + 256 * b[2] + 65536 * b[3] + 16777216 * b[4]

\* borsh: a String is its byte length as u32 followed by its bytes
BorshString(s) == U32LE(Len(s)) \o s

\* borsh::to_vec of a record (derive(BorshSerialize): the fields in declaration order)
BorshToVec(r) ==
    IF r.kind = "BadSer" THEN Err("ser")
    ELSE Ok(BorshString(r.key) \o BorshString(r.foo))

\* a UTF-8 continuation byte
Utf8Cont(x) == x \in 128..191

\* String::from_utf8: the bytes are well-formed UTF-8 (no overlong form, no surrogate,
\* nothing above U+10FFFF)
RECURSIVE ValidUtf8(_)
ValidUtf8(s) ==
    IF s = <<>> THEN TRUE
    ELSE LET b == s[1]
             n == Len(s)
         IN  IF b < 128 THEN ValidUtf8(Tail(s))
             ELSE IF b \in 194..223
                  THEN n >= 2 /\ Utf8Cont(s[2]) /\ ValidUtf8(SubSeq(s, 3, n))
             ELSE IF b \in 224..239
                  THEN /\ n >= 3
                       /\ s[2] \in (IF b = 224 THEN 160..191
                                   ELSE IF b = 237 THEN 128..159 ELSE 128..191)
                       /\ Utf8Cont(s[3])
                       /\ ValidUtf8(SubSeq(s, 4, n))
             ELSE IF b \in 240..244
                  THEN /\ n >= 4
                       /\ s[2] \in (IF b = 240 THEN 144..191
                                   ELSE IF b = 244 THEN 128..143 ELSE 128..191)
                       /\ Utf8Cont(s[3])
                       /\ Utf8Cont(s[4])
                       /\ ValidUtf8(SubSeq(s, 5, n))
             ELSE FALSE

\* borsh: read one String off the front of b: Ok(<<string, rest>>), or Err when the
\* length or the bytes are cut short or the bytes are not UTF-8
ReadString(b) ==
    IF Len(b) < 4 THEN Err("eof")
    ELSE LET n == FromU32LE(b) IN
         IF Len(b) < 4 + n THEN Err("eof")
         ELSE IF ~ValidUtf8(SubSeq(b, 5, 4 + n)) THEN Err("invalid utf-8")
         ELSE Ok(<< SubSeq(b, 5, 4 + n), SubSeq(b, 5 + n, Len(b)) >>)

\* BorshDeserialize::try_from_slice for the requested type: every byte must be read
TryFromSlice(ty, b) ==
    LET k == ReadString(b) IN
    IF ~k.ok THEN k
    ELSE IF ty = "String"
         THEN IF k.val[2] = <<>> THEN Ok(k.val[1]) ELSE Err("not all bytes read")
         ELSE LET f == ReadString(k.val[2]) IN
              IF ~f.ok THEN f
              ELSE IF f.val[2] # <<>> THEN Err("not all bytes read")
                   ELSE Ok([kind |-> "TestData", key |-> k.val[1], foo |-> f.val[1]])

-----------------------------------------------------------------------------
(* The engine: one partition as a map, in ascending key-byte order *)

EmptyMap == [k \in {} |-> <<>>]

Min(a, b) == IF a < b THEN a ELSE b

\* a faulty order: a proper prefix counted as greater
LexLessMutPrefix(a, b) ==
    \E i \in 1..(Min(Len(a), Len(b)) + 1) :
        /\ \A j \in 1..(i - 1) : a[j] = b[j]
        /\ \/ i > Len(b) /\ i <= Len(a)
           \/ i <= Len(a) /\ i <= Len(b) /\ a[i] < b[i]

\* Ord for byte strings: lexicographic, a proper prefix is smaller
LexLess(a, b) ==
    \E i \in 1..(Min(Len(a), Len(b)) + 1) :
        /\ \A j \in 1..(i - 1) : a[j] = b[j]
        /\ \/ i > Len(a) /\ i <= Len(b)
           \/ i <= Len(a) /\ i <= Len(b) /\ a[i] < b[i]

\* the least key of a non-empty set
LeastKey(S) == CHOOSE k \in S : \A j \in S \ {k} : LexLess(k, j)

RECURSIVE SortedKeys(_)
SortedKeys(S) ==
    IF S = {} THEN <<>>
    ELSE LET k == LeastKey(S) IN <<k>> \o SortedKeys(S \ {k})

\* sled::Tree::get: None is <<>>, Some(v) is <<v>>
TreeGet(c, k) == IF k \in DOMAIN c THEN <<c[k]>> ELSE <<>>

\* sled::Tree::insert
TreePut(c, k, v) == [x \in (DOMAIN c) \cup {k} |-> IF x = k THEN v ELSE c[x]]

\* sled::Tree::iter, drained: the entries in ascending key order
TreeEntries(c) ==
    LET ks == SortedKeys(DOMAIN c) IN [i \in 1..Len(ks) |-> <<ks[i], c[ks[i]]>>]

\* DbTree::len
TreeLen(c) == Len(TreeEntries(c))

\* sled::Batch::insert: the write-set holds one value per key, the last one written
BatchPut(w, k, v) == TreePut(w, k, v)

\* a faulty apply: only the first pending pair is written
ApplyWritesMutPartial(c, w) ==
    IF DOMAIN w = {} THEN c
    ELSE LET k == LeastKey(DOMAIN w) IN TreePut(c, k, w[k])

\* sled::Tree::apply_batch: every pending pair is written, in one engine step
ApplyWrites(c, w) ==
    [x \in (DOMAIN c) \cup (DOMAIN w) |-> IF x \in DOMAIN w THEN w[x] ELSE c[x]]

-----------------------------------------------------------------------------
(* DbBatch *)

\* DbBatch::new
DbBatchNew == [writes |-> EmptyMap, count |-> 0]

\* a faulty insert: count += 1 before the key and the bytes are known to exist
DbBatchInsertMutCountFirst(b, r) ==
    LET k == DbKeyKey(r)
        d == BorshToVec(r)
        c == [b EXCEPT !.count = @ + 1]
    IN  IF ~k.ok THEN [ok |-> FALSE, batch |-> c]
        ELSE IF ~d.ok THEN [ok |-> FALSE, batch |-> c]
        ELSE [ok |-> TRUE,
              batch |-> [writes |-> BatchPut(b.writes, k.val, d.val),
                         count |-> b.count + 1]]

\* DbBatch::insert: key()?, then to_vec, then the write-set insert and count += 1
DbBatchInsert(b, r) ==
    LET k == DbKeyKey(r)
        d == BorshToVec(r)
    IN  IF ~k.ok THEN [ok |-> FALSE, batch |-> b]
        ELSE IF ~d.ok THEN [ok |-> FALSE, batch |-> b]
        ELSE [ok |-> TRUE,
              batch |-> [writes |-> BatchPut(b.writes, k.val, d.val),
                         count |-> b.count + 1]]

\* a faulty take_inner: the batch is replaced by a new one, count included
DbBatchTakeInnerMutReset(b) == [taken |-> b.writes, batch |-> DbBatchNew]

\* a faulty take_inner: the write-set is cloned and stays in the batch
DbBatchTakeInnerMutKeep(b) == [taken |-> b.writes, batch |-> b]

\* DbBatch::take_inner: std::mem::take of the write-set; count is left as it is
DbBatchTakeInner(b) ==
    [taken |-> b.writes, batch |-> [writes |-> EmptyMap, count |-> b.count]]

\* DbBatch::count
DbBatchCount(b) == b.count

-----------------------------------------------------------------------------
(* DbTree *)

\* a faulty insert: the previous value is dropped and None returned
DbTreeInsertMutNoPrev(c, r, engineOk) ==
    LET k == DbKeyKey(r)
        d == BorshToVec(r)
    IN  IF ~k.ok THEN [ok |-> FALSE, ret |-> <<>>, content |-> c]
        ELSE IF ~d.ok THEN [ok |-> FALSE, ret |-> <<>>, content |-> c]
        ELSE IF ~engineOk THEN [ok |-> FALSE, ret |-> <<>>, content |-> c]
        ELSE [ok |-> TRUE, ret |-> <<>>, content |-> TreePut(c, k.val, d.val)]

\* DbTree::insert on content c: key()?, then to_vec, then Tree::insert(..)?, which
\* returns the previous value, or fails and leaves the partition
DbTreeInsert(c, r, engineOk) ==
    LET k == DbKeyKey(r)
        d == BorshToVec(r)
    IN  IF ~k.ok THEN [ok |-> FALSE, ret |-> <<>>, content |-> c]
        ELSE IF ~d.ok THEN [ok |-> FALSE, ret |-> <<>>, content |-> c]
        ELSE IF ~engineOk THEN [ok |-> FALSE, ret |-> <<>>, content |-> c]
        ELSE [ok |-> TRUE, ret |-> TreeGet(c, k.val), content |-> TreePut(c, k.val, d.val)]

\* DbTree::get: the engine's Result
DbTreeGet(c, k, engineOk) == IF engineOk THEN Ok(TreeGet(c, k)) ELSE Err("get")

\* a faulty deserialize: a default record for an absent key
DbTreeDeserializeMutDefault(c, k, ty, engineOk) ==
    LET value == DbTreeGet(c, k, engineOk) IN
    IF ~value.ok THEN value
    ELSE IF value.val # <<>> THEN TryFromSlice(ty, value.val[1])
         ELSE Ok([kind |-> "TestData", key |-> <<>>, foo |-> <<>>])

\* DbTree::deserialize: get(key)?, then try_from_slice of Some(value), Err on None
DbTreeDeserialize(c, k, ty, engineOk) ==
    LET value == DbTreeGet(c, k, engineOk) IN
    IF ~value.ok THEN value
    ELSE IF value.val # <<>> THEN TryFromSlice(ty, value.val[1])
         ELSE Err("value for key is None")

\* a faulty filter_map: an Err item is kept too, as an entry of no key and no value
FilterMapEntryMutAll(item) == IF item.ok THEN <<item.val>> ELSE << <<<<>>, <<>>>> >>

\* the filter_map of list_values on one item of the iteration: Some(pair) for an
\* Ok(pair), None for an Err
FilterMapEntry(item) == IF item.ok THEN <<item.val>> ELSE <<>>

-----------------------------------------------------------------------------
(* Database::destroy *)

\* the orders in which tree_names() can return the names: the engine's choice
NameOrders ==
    {o \in [1..Cardinality(Names) -> Names] : \A i, j \in DOMAIN o : o[i] = o[j] => i = j}

\* sled::Db::tree_names: the names that exist, in the engine's order
TreeNames(tn, order) == SelectSeq(order, LAMBDA n : n \in tn)

\* a faulty filter: the reserved name is not excluded
DestroyFilterMutAll(name) == TRUE

\* the filter of destroy: every name but the reserved one
DestroyFilter(name) == name # SLED_DEFAULT_TREE

\* a faulty drop: it reports success and leaves the partition
DropTreeMutKeep(s, name, fails) == s

\* sled::Db::drop_tree on store s = [trees, names]: an error leaves the partition
DropTree(s, name, fails) ==
    IF name \in fails THEN s
    ELSE [trees |-> [s.trees EXCEPT ![name] = EmptyMap], names |-> s.names \ {name}]

\* tree_names().iter().filter(..): the names destroy will drop, in the order of names
DestroyNames(names) == SelectSeq(names, LAMBDA n : DestroyFilter(n))

\* no destroy in progress
NoDestroying == [state |-> "idle", names |-> <<>>, attempted |-> {}, logged |-> {}]

\* a faulty loop: the first failed drop ends it
DestroyStepMutAbort(d, fail) ==
    [d EXCEPT !.names = IF fail THEN <<>> ELSE Tail(@),
              !.attempted = @ \cup {Head(d.names)},
              !.logged = IF fail THEN @ \cup {Head(d.names)} ELSE @]

\* one round of the for_each of destroy: the drop of the next name was attempted; a
\* failed drop is logged and the loop goes on
DestroyStep(d, fail) ==
    [d EXCEPT !.names = Tail(@),
              !.attempted = @ \cup {Head(d.names)},
              !.logged = IF fail THEN @ \cup {Head(d.names)} ELSE @]

-----------------------------------------------------------------------------
(* DbOpts and its conversion to sled::Config (src/src/config.rs) *)

\* an Option: None is <<>>, Some(v) is <<v>>
None == <<>>
Some(v) == <<v>>

\* impl Default for DbMode
DbModeDefault == "Fast"

\* impl Into<sled::Mode> for DbMode
DbModeInto(mode) == IF mode = "LowSpace" THEN "LowSpace" ELSE "HighThroughput"

\* impl Default for DbOpts: mode is Default::default() of Option<DbMode>
DbOptsDefault ==
    [path |-> "test_infos.db", system_page_cache |-> None, compression_factor |-> None,
     mode |-> None, debug |-> FALSE]

\* the configurations given to Database::new
DbOptsSet ==
    [path : {"test_infos.db", "other.db"},
     system_page_cache : {None, Some(1024), Some(1073741824)},
     compression_factor : {None, Some(1), Some(22)},
     mode : {None, Some("LowSpace"), Some("Fast")},
     debug : BOOLEAN]

\* sled::Config::new(): the builder calls made so far, none
SledConfigNew ==
    [path |-> None, cache_capacity |-> None, use_compression |-> None,
     compression_factor |-> None, mode |-> None, print_profile_on_drop |-> None]

\* impl Into<sled::Config> for &DbOpts: the builder calls, in order
DbOptsInto(o) ==
    LET c1 == [SledConfigNew EXCEPT !.path = Some(o.path)]
        c2 == IF o.system_page_cache # None
              THEN [c1 EXCEPT !.cache_capacity = o.system_page_cache] ELSE c1
        c3 == IF o.compression_factor # None
              THEN [c2 EXCEPT !.use_compression = Some(TRUE),
                              !.compression_factor = o.compression_factor]
              ELSE c2
        c4 == IF o.mode # None THEN [c3 EXCEPT !.mode = Some(DbModeInto(o.mode[1]))] ELSE c3
        c5 == IF o.debug THEN [c4 EXCEPT !.print_profile_on_drop = Some(TRUE)] ELSE c4
    IN  c5

-----------------------------------------------------------------------------
(* The state machine *)

NoIter == [state |-> "idle", tree |-> "", live |-> TRUE, cursor |-> <<>>, seen |-> <<>>,
           list |-> FALSE, erred |-> FALSE]
NoScan == [applies |-> 0, before |-> EmptyMap, after |-> EmptyMap, read |-> <<>>]

\* the record of an operation: its name, partition, outcome, input, result and pre-state
Done(op, t, ok, arg, ret) ==
    [op |-> op, tree |-> t, ok |-> ok, arg |-> arg, ret |-> ret,
     engineOk |-> TRUE,
     pre |-> trees, preNames |-> treeNames, preBatch |-> batch,
     prePending |-> pending, preSince |-> sinceApply,
     preFresh |-> t \in sinceDestroy.fresh, preFull |-> t \in sinceDestroy.full,
     preReplaced |-> FALSE]

\* the record of an operation whose engine call succeeds or fails, as engineOk says
DoneEngine(op, t, engineOk, ok, arg, ret) ==
    [Done(op, t, ok, arg, ret) EXCEPT !.engineOk = engineOk]

\* the operation before this one was a DbBatch::insert of a record whose key the
\* write-set already held, with another record
Replaced ==
    /\ last.op = "batch_insert" /\ last.ok
    /\ last.arg.key \in DOMAIN last.prePending
    /\ last.prePending[last.arg.key] # last.arg

\* no destroy yet
NoDestroy ==
    [fresh |-> {}, kept |-> {}, full |-> {}, at |-> [n \in Names |-> EmptyMap],
     began |-> {}, failed |-> {}, reopened |-> {}, quiet |-> TRUE]

\* history of a destroy that starts on store tr with names tn: the absent names
\* (fresh), the reserved name and its contents (kept, at), the names that exist (began);
\* no other caller has run yet (quiet)
DestroyBegun(tr, tn) ==
    [fresh |-> Names \ tn, kept |-> {SLED_DEFAULT_TREE}, full |-> {},
     at |-> [n \in Names |-> IF n = SLED_DEFAULT_TREE THEN tr[n] ELSE EmptyMap],
     began |-> tn, failed |-> {}, reopened |-> {}, quiet |-> TRUE]

\* history of the drop of name: a dropped name is fresh (full if it had content), a
\* name whose drop failed is kept with its contents
Dropped(h, tr, name, fail) ==
    IF fail
    THEN [h EXCEPT !.kept = @ \cup {name}, !.at[name] = tr[name],
                   !.failed = @ \cup {name}]
    ELSE [h EXCEPT !.fresh = @ \cup {name},
                   !.full = IF tr[name] # EmptyMap THEN @ \cup {name} ELSE @,
                   !.reopened = @ \ {name}]

\* the history of the run of destroy itself is kept until the next write or open
\* after the run
AfterRun(h) ==
    [h EXCEPT !.began = {}, !.failed = {}, !.reopened = {}, !.quiet = TRUE]

\* history of a write to partition t: t is no longer as destroy left it; a write
\* while destroy runs is another caller's
Written(h, t) ==
    IF destroying.state = "running"
    THEN [h EXCEPT !.fresh = @ \ {t}, !.kept = @ \ {t}, !.full = @ \ {t},
                   !.at[t] = EmptyMap, !.quiet = FALSE]
    ELSE [AfterRun(h) EXCEPT !.fresh = @ \ {t}, !.kept = @ \ {t}, !.full = @ \ {t},
                             !.at[t] = EmptyMap]

\* history of an open of name: an open while destroy runs is another caller's
Opened(h, name) ==
    IF destroying.state = "running"
    THEN [h EXCEPT !.quiet = FALSE, !.reopened = @ \cup {name}]
    ELSE AfterRun(h)

\* a new, empty store and DbBatch::new
InitStore ==
    /\ trees = [n \in Names |-> EmptyMap]
    /\ treeNames = {SLED_DEFAULT_TREE}
    /\ handles = {}
    /\ stale = {}
    /\ batch = DbBatchNew
    /\ it = NoIter
    /\ pending = EmptyMap
    /\ shadow = [n \in Names |-> EmptyMap]
    /\ sinceApply = 0
    /\ scan = NoScan
    /\ last = [op |-> "new", tree |-> "", ok |-> TRUE, arg |-> <<>>, ret |-> <<>>,
               engineOk |-> TRUE,
               pre |-> [n \in Names |-> EmptyMap], preNames |-> {SLED_DEFAULT_TREE},
               preBatch |-> DbBatchNew, prePending |-> EmptyMap, preSince |-> 0,
               preFresh |-> FALSE, preFull |-> FALSE]
    /\ sinceDestroy = NoDestroy
    /\ destroying = NoDestroying

\* Database::new(&DbOpts::default()) with an empty store, and DbBatch::new
Init ==
    /\ InitStore
    /\ opts = DbOptsDefault
    /\ sledConfig = Some(DbOptsInto(DbOptsDefault))

\* a configuration, before Database::new
InitConfig ==
    /\ InitStore
    /\ opts \in DbOptsSet
    /\ sledConfig = None

\* Database::new: the configuration is converted, then sled_config.open()? opens the
\* engine with it, or fails and there is no Database
DatabaseNew(engineOk) ==
    LET sled_config == DbOptsInto(opts) IN
    /\ sledConfig = None
    /\ sledConfig' = IF engineOk THEN Some(sled_config) ELSE None
    /\ last' = DoneEngine("new", "", engineOk, engineOk, <<>>,
                          IF engineOk THEN <<>> ELSE "open")
    /\ UNCHANGED <<trees, treeNames, handles, stale, batch, it, pending, shadow, sinceApply, scan, destroying, sinceDestroy, opts>>

\* a faulty open: the partition is created anew at every open
EngineOpenTreeMutRecreate(s, name) ==
    [trees |-> [s.trees EXCEPT ![name] = EmptyMap], names |-> s.names \cup {name}]

\* sled::Db::open_tree on store s = [trees, names]: the partition of that name,
\* created empty if it is absent
EngineOpenTree(s, name) ==
    [trees |-> IF name \in s.names THEN s.trees ELSE [s.trees EXCEPT ![name] = EmptyMap],
     names |-> s.names \cup {name}]

\* the handles a caller can hold for name t: one of the partition the store has
\* (TRUE), one of a partition that was dropped since it was opened (FALSE)
HeldHandles(t) == {live \in BOOLEAN : IF live THEN t \in handles ELSE t \in stale}

\* the engine's tree behind a handle: a dropped tree holds nothing, and the engine
\* refuses to write to it
TreeOf(t, live) == IF live THEN trees[t] ELSE EmptyMap

\* Database::open_tree / DbTree::open: the engine opens the partition, creating it
\* if it is absent, or fails; the handle is the engine's tree of that name
OpenTree(name, engineOk) ==
    LET res == EngineOpenTree([trees |-> trees, names |-> treeNames], DbTreesStr(name)) IN
    /\ IF engineOk
       THEN /\ trees' = res.trees
            /\ treeNames' = res.names
            /\ handles' = handles \cup {DbTreesStr(name)}
       ELSE UNCHANGED <<trees, treeNames, handles>>
    /\ sinceDestroy' = IF engineOk THEN Opened(sinceDestroy, DbTreesStr(name))
                       ELSE sinceDestroy
    /\ last' = DoneEngine("open_tree", name, engineOk, engineOk, <<>>, <<>>)
    /\ UNCHANGED <<stale, batch, it, pending, shadow, sinceApply, scan>>
    /\ UNCHANGED <<destroying, opts, sledConfig>>

\* a faulty DbBatch::insert: the pair is also written through to the partition
BatchInsertMutWriteThrough(r) ==
    LET res == DbBatchInsert(batch, r) IN
    /\ res.ok => DbBatchCount(batch) < MaxCount
    /\ batch' = res.batch
    /\ IF res.ok
       THEN /\ sinceApply' = sinceApply + 1
            /\ pending' = TreePut(pending, DbKeyKey(r).val, r)
            /\ trees' = [trees EXCEPT !["foobar"] = ApplyWrites(@, res.batch.writes)]
       ELSE UNCHANGED <<sinceApply, pending, trees>>
    /\ last' = Done("batch_insert", "", res.ok, r, <<>>)
    /\ UNCHANGED <<treeNames, handles, stale, it, shadow, scan>>
    /\ UNCHANGED <<destroying, sinceDestroy, opts, sledConfig>>

\* DbBatch::insert
BatchInsert(r) ==
    LET res == DbBatchInsert(batch, r) IN
    /\ res.ok => DbBatchCount(batch) < MaxCount
    /\ batch' = res.batch
    /\ IF res.ok
       THEN /\ sinceApply' = sinceApply + 1
            /\ pending' = TreePut(pending, DbKeyKey(r).val, r)
       ELSE UNCHANGED <<sinceApply, pending>>
    /\ last' = Done("batch_insert", "", res.ok, r, <<>>)
    /\ UNCHANGED <<trees, treeNames, handles, stale, it, shadow, scan>>
    /\ UNCHANGED <<destroying, sinceDestroy, opts, sledConfig>>

\* a faulty application: the write-set reaches every partition of the store
TreesApplyBatchMutAll(tr, t, w) == [n \in DOMAIN tr |-> ApplyWrites(tr[n], w)]

\* self.tree.apply_batch: the write-set is applied to the partition of the handle
TreesApplyBatch(tr, t, w) == [tr EXCEPT ![t] = ApplyWrites(@, w)]

\* DbTree::apply_batch through a handle the caller holds: take_inner, then the engine
\* applies the taken write-set in one step, or rejects it: when its own call fails
\* (engineOk), or when the write-set has a write for a tree that was dropped.  An
\* empty write-set has no write to refuse, and is answered Ok through a handle of a
\* dropped tree as well; it writes nothing
ApplyBatch(t, engineOk) ==
    \E live \in HeldHandles(t) :
    LET tk == DbBatchTakeInner(batch)
        new == ApplyWrites(trees[t], tk.taken)
        accepted == engineOk /\ (live \/ tk.taken = EmptyMap)
    IN
    /\ batch' = tk.batch
    /\ pending' = EmptyMap
    /\ IF accepted /\ live
       THEN /\ trees' = TreesApplyBatch(trees, t, tk.taken)
            /\ shadow' = [shadow EXCEPT ![t] = ApplyWrites(@, pending)]
            /\ scan' = IF it.state = "active" /\ it.tree = t
                       THEN [scan EXCEPT !.applies = Min(@ + 1, 2),
                                         !.before = trees[t], !.after = new]
                       ELSE scan
       ELSE UNCHANGED <<trees, shadow, scan>>
    /\ sinceApply' = IF accepted THEN 0 ELSE sinceApply
    /\ sinceDestroy' = IF accepted /\ live THEN Written(sinceDestroy, t) ELSE sinceDestroy
    /\ last' = [DoneEngine("apply_batch", t, engineOk, accepted, tk.taken, <<>>)
                   EXCEPT !.preReplaced = Replaced]
    /\ UNCHANGED <<treeNames, handles, stale, it>>
    /\ UNCHANGED <<destroying, opts, sledConfig>>

\* DbBatch::take_inner, called by the owner of the batch
TakeInner ==
    LET tk == DbBatchTakeInner(batch) IN
    /\ batch' = tk.batch
    /\ pending' = EmptyMap
    /\ last' = Done("take_inner", "", TRUE, <<>>, tk.taken)
    /\ UNCHANGED <<trees, treeNames, handles, stale, it, shadow, sinceApply, scan>>
    /\ UNCHANGED <<destroying, sinceDestroy, opts, sledConfig>>

\* DbTree::insert through a handle the caller holds; the engine refuses to write to a
\* dropped tree
TreeInsert(t, r, engineOk) ==
    \E live \in HeldHandles(t) :
    LET res == DbTreeInsert(trees[t], r, engineOk /\ live) IN
    /\ trees' = [trees EXCEPT ![t] = res.content]
    /\ shadow' = IF res.ok THEN [shadow EXCEPT ![t] = TreePut(@, DbKeyKey(r).val, r)]
                 ELSE shadow
    /\ sinceDestroy' = IF res.ok THEN Written(sinceDestroy, t) ELSE sinceDestroy
    /\ scan' = IF res.ok /\ it.state = "active" /\ it.tree = t
               THEN [scan EXCEPT !.applies = Min(@ + 1, 2),
                                 !.before = trees[t], !.after = res.content]
               ELSE scan
    /\ last' = DoneEngine("insert", t, engineOk /\ live, res.ok, r, res.ret)
    /\ UNCHANGED <<treeNames, handles, stale, batch, it, pending, sinceApply>>
    /\ UNCHANGED <<destroying, opts, sledConfig>>

\* DbTree::get through a handle the caller holds
Get(t, k, engineOk) ==
    \E live \in HeldHandles(t) :
    LET res == DbTreeGet(TreeOf(t, live), k, engineOk) IN
    /\ last' = DoneEngine("get", t, engineOk, res.ok, k, res.val)
    /\ UNCHANGED <<trees, treeNames, handles, stale, batch, it, pending, shadow, sinceApply, scan>>
    /\ UNCHANGED <<destroying, sinceDestroy, opts, sledConfig>>

\* DbTree::deserialize::<ty> through a handle the caller holds
Deserialize(t, k, ty, engineOk) ==
    \E live \in HeldHandles(t) :
    LET res == DbTreeDeserialize(TreeOf(t, live), k, ty, engineOk) IN
    /\ last' = DoneEngine("deserialize", t, engineOk, res.ok, <<k, ty>>, res.val)
    /\ UNCHANGED <<trees, treeNames, handles, stale, batch, it, pending, shadow, sinceApply, scan>>
    /\ UNCHANGED <<destroying, sinceDestroy, opts, sledConfig>>

\* DbTree::len through a handle the caller holds
TreeLenOp(t) ==
    \E live \in HeldHandles(t) :
    /\ last' = Done("len", t, TRUE, <<>>, TreeLen(TreeOf(t, live)))
    /\ UNCHANGED <<trees, treeNames, handles, stale, batch, it, pending, shadow, sinceApply, scan>>
    /\ UNCHANGED <<destroying, sinceDestroy, opts, sledConfig>>

\* Database::list_values, its first engine call: open_tree(tree)?, which fails the
\* whole call or creates the partition if absent; then iter(), a lazy sled::Iter that
\* has read nothing yet.  The entries are read by IterNext, one engine call each,
\* and between any two of them other callers run
ListValuesOpen(name, engineOk) ==
    LET res == EngineOpenTree([trees |-> trees, names |-> treeNames], DbTreesStr(name)) IN
    /\ it.state # "active"
    /\ IF engineOk
       THEN /\ trees' = res.trees
            /\ treeNames' = res.names
            /\ it' = [state |-> "active", tree |-> DbTreesStr(name), live |-> TRUE,
                      cursor |-> <<>>, seen |-> <<>>, list |-> TRUE, erred |-> FALSE]
            /\ scan' = [applies |-> 0, before |-> res.trees[name],
                        after |-> res.trees[name], read |-> <<>>]
            /\ last' = Done("list_open", name, TRUE, <<>>, <<>>)
       ELSE /\ UNCHANGED <<trees, treeNames, it, scan>>
            /\ last' = DoneEngine("list_values", name, FALSE, FALSE, FALSE, "open_tree")
    /\ sinceDestroy' = IF engineOk THEN Opened(sinceDestroy, DbTreesStr(name))
                       ELSE sinceDestroy
    /\ UNCHANGED <<handles, stale, batch, pending, shadow, sinceApply>>
    /\ UNCHANGED <<destroying, opts, sledConfig>>

\* Database::destroy, its first engine call: tree_names(), taken once, in the order
\* the engine gives, and filtered.  With no name to drop, destroy returns
DestroyBegin(order) ==
    LET names == DestroyNames(TreeNames(treeNames, order)) IN
    /\ destroying.state = "idle"
    /\ destroying' = IF names = <<>> THEN NoDestroying
                     ELSE [state |-> "running", names |-> names,
                           attempted |-> {}, logged |-> {}]
    /\ sinceDestroy' = DestroyBegun(trees, treeNames)
    /\ last' = IF names = <<>>
               THEN Done("destroy", "", TRUE, <<>>, [attempted |-> {}, logged |-> {}])
               ELSE Done("tree_names", "", TRUE, <<>>, names)
    /\ UNCHANGED <<trees, treeNames, handles, stale, batch, it, pending, shadow, sinceApply, scan>>
    /\ UNCHANGED cfgVars

\* Database::destroy, one round of its for_each: drop_tree of the next name, which
\* fails for the names in fails; other callers run between two rounds.  After the last
\* name destroy returns.  A handle of a dropped partition stays with its caller, and
\* so does an iterator over it, which finds nothing more
DestroyDrop(fails) ==
    LET name == Head(destroying.names)
        fail == name \in fails
        res == DropTree([trees |-> trees, names |-> treeNames], name, fails)
        step == DestroyStep(destroying, fail)
        dropped == treeNames \ res.names
    IN
    /\ destroying.state = "running"
    /\ fails \subseteq {name}
    /\ trees' = res.trees
    /\ treeNames' = res.names
    /\ handles' = handles \ dropped
    /\ stale' = stale \cup (handles \cap dropped)
    /\ it' = IF it.tree \in dropped THEN [it EXCEPT !.live = FALSE] ELSE it
    /\ shadow' = [n \in Names |-> IF n \in treeNames /\ n \notin res.names
                                  THEN EmptyMap ELSE shadow[n]]
    /\ destroying' = IF step.names = <<>> THEN [step EXCEPT !.state = "idle"] ELSE step
    /\ sinceDestroy' = Dropped(sinceDestroy, trees, name, fail)
    /\ last' = IF step.names = <<>>
               THEN Done("destroy", name, TRUE, fails,
                         [attempted |-> step.attempted, logged |-> step.logged])
               ELSE Done("drop_tree", name, ~fail, fails, <<>>)
    /\ UNCHANGED <<batch, pending, sinceApply, scan>>
    /\ UNCHANGED cfgVars

\* DbTree::iter through a handle the caller holds: a lazy sled::Iter positioned
\* before the first key
IterStart(t) ==
    \E live \in HeldHandles(t) :
    /\ it.state # "active"
    /\ it' = [state |-> "active", tree |-> t, live |-> live, cursor |-> <<>>,
              seen |-> <<>>, list |-> FALSE, erred |-> FALSE]
    /\ scan' = [applies |-> 0, before |-> TreeOf(t, live), after |-> TreeOf(t, live),
                read |-> <<>>]
    /\ last' = Done("iter", t, TRUE, <<>>, <<>>)
    /\ UNCHANGED <<trees, treeNames, handles, stale, batch, pending, shadow, sinceApply>>
    /\ UNCHANGED <<destroying, sinceDestroy, opts, sledConfig>>

\* the keys of content c after the iterator's position
KeysAfter(c, cursor) == {k \in DOMAIN c : cursor = <<>> \/ LexLess(cursor[1], k)}

\* sled::Iter::next: an Err of the engine (err), which reads no entry and leaves the
\* position where it was, so that the next call reads the same entry again; else the
\* entry of the least key after the position, read from the partition as it is now;
\* else None.  In list_values the item goes through filter_map, which drops an Err and
\* goes on, and None ends the collect: list_values returns Ok of the pairs collected
IterNext(err) ==
    LET c == TreeOf(it.tree, it.live)
        rest == KeysAfter(c, it.cursor)
    IN
    /\ it.state = "active"
    /\ IF err
       THEN /\ it' = [it EXCEPT !.seen = IF it.list THEN @ \o FilterMapEntry(Err("io"))
                                         ELSE @,
                                !.erred = TRUE]
            /\ scan' = scan
            /\ last' = Done("iter_next", it.tree, FALSE, <<>>, <<>>)
       ELSE IF rest = {}
       THEN /\ it' = [it EXCEPT !.state = "done"]
            /\ scan' = scan
            /\ last' = IF it.list
                       THEN Done("list_values", it.tree, TRUE, it.erred, it.seen)
                       ELSE Done("iter_end", it.tree, TRUE, it.erred, it.seen)
       ELSE LET k == LeastKey(rest)
                entry == <<k, c[k]>>
            IN  /\ it' = [it EXCEPT !.cursor = <<k>>,
                                    !.seen = IF it.list THEN @ \o FilterMapEntry(Ok(entry))
                                             ELSE Append(@, entry)]
                /\ scan' = [scan EXCEPT !.read = Append(@, entry)]
                /\ last' = Done("iter_next", it.tree, TRUE, <<>>, <<entry>>)
    /\ UNCHANGED <<trees, treeNames, handles, stale, batch, pending, shadow, sinceApply>>
    /\ UNCHANGED <<destroying, sinceDestroy, opts, sledConfig>>

-----------------------------------------------------------------------------
(* Specifications *)

\* one caller filling a batch and applying it to the two partitions of the test
NextBatch ==
    \/ \E name \in CustomNames : OpenTree(name, TRUE)
    \/ \E r \in Records : BatchInsert(r)
    \/ \E t \in CustomNames, engineOk \in BOOLEAN : ApplyBatch(t, engineOk)
    \/ TakeInner

Spec == Init /\ [][NextBatch]_vars

\* one partition, written directly and through the batch, and read back; the batch
\* takes the failing records, a record of every key, and for the first key a record
\* of every foo value, so that a batch can hold two records of one key that differ
OnePartition == "foobar"
RequestedTypes == {"TestData", "String"}
PartitionBatchRecords ==
    {r \in Records : r.kind = "TestData" => (r.foo = FooPool[2] \/ r.key = KeyPool[1])}

NextPartition ==
    \/ OpenTree(OnePartition, TRUE)
    \/ \E r \in Records, engineOk \in BOOLEAN : TreeInsert(OnePartition, r, engineOk)
    \/ \E r \in PartitionBatchRecords : BatchInsert(r)
    \/ ApplyBatch(OnePartition, TRUE)
    \/ \E k \in Keys, engineOk \in BOOLEAN : Get(OnePartition, k, engineOk)
    \/ \E k \in Keys, ty \in RequestedTypes, engineOk \in BOOLEAN :
           Deserialize(OnePartition, k, ty, engineOk)
    \/ TreeLenOp(OnePartition)

SpecPartition == Init /\ [][NextPartition]_vars

\* the store: every partition, the reserved one included, opened and written directly
\* while destroy takes its steps; one partition holds several keys, the others one record
StoreRecords == {r \in TestData : r.foo = FooPool[1]}

ReopenRecord == [kind |-> "TestData", key |-> KeyPool[1], foo |-> FooPool[1]]

NextStore ==
    \/ \E name \in Names : OpenTree(name, TRUE)
    \/ \E r \in StoreRecords : TreeInsert(OnePartition, r, TRUE)
    \/ \E t \in Names \ {OnePartition} : TreeInsert(t, ReopenRecord, TRUE)
    \/ \E order \in NameOrders : DestroyBegin(order)
    \/ \E fails \in SUBSET CustomNames : DestroyDrop(fails)

SpecStore == Init /\ [][NextStore]_vars

\* a writer applying batches to a partition while a reader gets and iterates it
NextConcurrent ==
    \/ OpenTree(OnePartition, TRUE)
    \/ \E r \in TestData : BatchInsert(r)
    \/ ApplyBatch(OnePartition, TRUE)
    \/ \E k \in Keys : Get(OnePartition, k, TRUE)
    \/ TreeLenOp(OnePartition)
    \/ IterStart(OnePartition)
    \/ IterNext(FALSE)

SpecConcurrent == Init /\ [][NextConcurrent]_vars

\* a writer inserting into a partition, and rewriting one key by batch, while a reader
\* lists and iterates it; any call of the iterator may fail
ListBatchRecord == [kind |-> "TestData", key |-> KeyPool[1], foo |-> FooPool[2]]

NextList ==
    \/ OpenTree(OnePartition, TRUE)
    \/ \E r \in StoreRecords : TreeInsert(OnePartition, r, TRUE)
    \/ BatchInsert(ListBatchRecord)
    \/ ApplyBatch(OnePartition, TRUE)
    \/ IterStart(OnePartition)
    \/ \E engineOk \in BOOLEAN : ListValuesOpen(OnePartition, engineOk)
    \/ \E err \in BOOLEAN : IterNext(err)

SpecList == Init /\ [][NextList]_vars

\* the two partitions of the test during and after destroy: opened again and written,
\* directly with one record and by a batch of few inserts applied to either; the drop
\* of one may fail
NextFrame ==
    \/ \E name \in CustomNames : OpenTree(name, TRUE)
    \/ TreeInsert(OnePartition, ReopenRecord, TRUE)
    \/ DbBatchCount(batch) < MaxCount - 1 /\ BatchInsert(ListBatchRecord)
    \/ \E t \in CustomNames : ApplyBatch(t, TRUE)
    \/ \E order \in NameOrders : DestroyBegin(order)
    \/ \E fails \in SUBSET {OnePartition} : DestroyDrop(fails)

SpecFrame == Init /\ [][NextFrame]_vars

\* every partition of the store, the reserved one included, during and after destroy:
\* opened again and written directly with one record, one of them also by a batch of
\* very few inserts; the drop of any of them may fail
NextReopen ==
    \/ \E name \in Names : OpenTree(name, TRUE)
    \/ \E t \in Names : TreeInsert(t, ReopenRecord, TRUE)
    \/ DbBatchCount(batch) < MaxCount - 2 /\ BatchInsert(ListBatchRecord)
    \/ ApplyBatch(OnePartition, TRUE)
    \/ \E order \in NameOrders : DestroyBegin(order)
    \/ \E fails \in SUBSET CustomNames : DestroyDrop(fails)

SpecReopen == Init /\ [][NextReopen]_vars

\* Database::new on each configuration
NextConfig == \E engineOk \in BOOLEAN : DatabaseNew(engineOk)

SpecConfig == InitConfig /\ [][NextConfig]_vars

-----------------------------------------------------------------------------
(* Claims *)

OtherCustom(t) == CHOOSE n \in CustomNames : n # t

\* the stored bytes of a record
Bytes(r) == BorshToVec(r).val

\* byte-string order, by head and tail
RECURSIVE BytesLess(_, _)
BytesLess(a, b) ==
    IF b = <<>> THEN FALSE
    ELSE IF a = <<>> THEN TRUE
    ELSE IF Head(a) # Head(b) THEN Head(a) < Head(b)
    ELSE BytesLess(Tail(a), Tail(b))

\* C1: count() equals the number of insert calls made on the batch since it was
\* created or last applied; right after a successful apply_batch it is 0.
C1_CountIsInsertsSinceApply == DbBatchCount(batch) = sinceApply

\* C2: a reader's whole iteration that overlaps one apply_batch returns the
\* partition either as it was before the batch, with none of its writes, or as it is
\* after it, with all of them.
C2_ScanSeesNoneOrAll ==
    (it.state = "done" /\ scan.applies = 1)
        => (it.seen = TreeEntries(scan.before) \/ it.seen = TreeEntries(scan.after))

\* C3: a batch reused after a successful apply_batch writes only the records
\* inserted since that apply, and none of those already applied.
C3_ReuseWritesOnlyNew ==
    (last.op = "apply_batch" /\ last.ok) =>
        \A k \in Keys :
            TreeGet(trees[last.tree], k) =
                IF k \in DOMAIN last.prePending THEN <<Bytes(last.prePending[k])>>
                ELSE TreeGet(last.pre[last.tree], k)

\* the test: one new record on the empty second partition, after the first apply
C3_Witness ==
    /\ last.op = "apply_batch" /\ last.ok
    /\ last.preBatch.count = 2 /\ last.preSince = 1
    /\ last.pre[last.tree] = EmptyMap
    /\ TreeLen(trees[last.tree]) = 1
    /\ TreeLen(trees[OtherCustom(last.tree)]) = 1
    /\ DOMAIN trees[last.tree] # DOMAIN trees[OtherCustom(last.tree)]

\* C4: N records with pairwise distinct keys, inserted into a fresh batch and applied
\* to an empty partition, leave it with length N; in general the keys afterwards are
\* the prior keys and the batch's keys.
C4_LenAfterApply ==
    (last.op = "apply_batch" /\ last.ok) =>
        /\ DOMAIN trees[last.tree] =
               (DOMAIN last.pre[last.tree]) \cup (DOMAIN last.prePending)
        /\ ( /\ last.preBatch.count = last.preSince
             /\ last.preSince = Cardinality(DOMAIN last.prePending)
             /\ last.pre[last.tree] = EmptyMap )
           => TreeLen(trees[last.tree]) = last.preBatch.count

C4_Witness ==
    /\ last.op = "apply_batch" /\ last.ok
    /\ last.preBatch.count = 2 /\ last.preSince = 2
    /\ last.pre[last.tree] = EmptyMap
    /\ TreeLen(trees[last.tree]) = 2

\* C5: a second record with the same key replaces the first and does not raise the
\* length, by two inserts, in one batch, or in two batches applied one after the
\* other; insert returns the previous raw value, or None.
C5_LastWriteWins ==
    /\ (last.op = "insert" /\ last.ok) =>
          LET t == last.tree
              k == last.arg.key
          IN  /\ TreeGet(trees[t], k) = <<Bytes(last.arg)>>
              /\ last.ret = TreeGet(last.pre[t], k)
              /\ TreeLen(trees[t]) =
                     TreeLen(last.pre[t]) + (IF k \in DOMAIN last.pre[t] THEN 0 ELSE 1)
              /\ \A j \in Keys \ {k} : TreeGet(trees[t], j) = TreeGet(last.pre[t], j)
    /\ (last.op = "batch_insert" /\ last.ok) =>
          LET k == last.arg.key IN
          /\ TreeGet(batch.writes, k) = <<Bytes(last.arg)>>
          /\ DOMAIN batch.writes = (DOMAIN last.preBatch.writes) \cup {k}
          /\ \A j \in Keys \ {k} :
                 TreeGet(batch.writes, j) = TreeGet(last.preBatch.writes, j)
    /\ (last.op = "apply_batch" /\ last.ok) =>
          LET t == last.tree IN
          /\ last.arg = last.preBatch.writes
          /\ \A k \in Keys :
                 TreeGet(trees[t], k) = IF k \in DOMAIN last.arg THEN <<last.arg[k]>>
                                        ELSE TreeGet(last.pre[t], k)
          /\ \A k \in DOMAIN last.prePending :
                 TreeGet(trees[t], k) = <<Bytes(last.prePending[k])>>
          /\ TreeLen(trees[t]) =
                 Cardinality((DOMAIN last.pre[t]) \cup (DOMAIN last.prePending))

\* a batch in which a second record replaced a first of the same key and another
\* value, applied to a partition that held the key with the first's value: the
\* partition holds the second's value and is no longer
C5_Witness ==
    /\ last.op = "apply_batch" /\ last.ok
    /\ last.preReplaced
    /\ \E k \in DOMAIN last.arg :
          /\ k \in DOMAIN last.pre[last.tree]
          /\ last.pre[last.tree][k] # last.arg[k]
          /\ TreeGet(trees[last.tree], k) = <<last.arg[k]>>
    /\ TreeLen(trees[last.tree]) = TreeLen(last.pre[last.tree])
    /\ TreeLen(trees[last.tree]) = 2

\* C6 (as claimed): after destroy every partition but the reserved one has length 0,
\* and the reserved one is as it was.
C6_AllCustomEmptyAfterDestroy ==
    (last.op = "destroy") =>
        /\ \A n \in CustomNames : TreeLen(trees[n]) = 0
        /\ trees[SLED_DEFAULT_TREE] = last.pre[SLED_DEFAULT_TREE]

\* C6 (amended): no step of destroy changes the reserved partition; when destroy
\* returns, a partition whose drop failed exists with the contents it had, and a
\* partition that destroy dropped and no other caller opened since is gone, and opens
\* with length 0; with no other caller at work during destroy this is every partition
\* but the reserved one and those whose drop failed.
C6_DroppedEmptyAfterDestroy ==
    /\ (last.op \in {"tree_names", "drop_tree", "destroy"}) =>
          /\ trees[SLED_DEFAULT_TREE] = last.pre[SLED_DEFAULT_TREE]
          /\ SLED_DEFAULT_TREE \in treeNames
    /\ (last.op = "destroy") =>
          /\ \A n \in CustomNames :
                /\ (n \in sinceDestroy.failed) =>
                      /\ n \in treeNames
                      /\ (n \in sinceDestroy.kept) => trees[n] = sinceDestroy.at[n]
                /\ (n \in last.ret.attempted \ sinceDestroy.failed
                        /\ n \notin sinceDestroy.reopened) =>
                      TreeLen(trees[n]) = 0 /\ n \notin treeNames
                /\ (sinceDestroy.quiet /\ n \notin sinceDestroy.failed) =>
                      TreeLen(trees[n]) = 0 /\ n \notin treeNames
          /\ sinceDestroy.quiet =>
                /\ sinceDestroy.kept = {SLED_DEFAULT_TREE} \cup sinceDestroy.failed
                /\ trees[SLED_DEFAULT_TREE] = sinceDestroy.at[SLED_DEFAULT_TREE]

C6_Witness ==
    /\ last.op = "destroy"
    /\ sinceDestroy.quiet
    /\ Cardinality(sinceDestroy.failed) = 1
    /\ sinceDestroy.full # {}
    /\ trees[SLED_DEFAULT_TREE] # EmptyMap
    /\ \E n \in sinceDestroy.failed : trees[n] # EmptyMap

\* C7 as claimed: applying a batch whose content was already taken, with no insert
\* since, changes no partition and returns success, whatever the engine does.
C7_SecondApplySucceeds ==
    (last.op = "apply_batch" /\ DOMAIN last.prePending = {}) =>
        /\ trees = last.pre
        /\ last.ok

\* C7: applying a batch whose content was already taken, with no insert since, hands
\* the engine an empty write-set, changes no partition and leaves the batch as it
\* was; it returns what the engine's call returns, Ok unless that call itself fails:
\* the wrapper reports no error of its own for the empty batch.
C7_SecondApplyIsNoOp ==
    (last.op = "apply_batch" /\ DOMAIN last.prePending = {}) =>
        /\ trees = last.pre
        /\ batch = last.preBatch
        /\ last.arg = EmptyMap
        /\ last.ok <=> last.engineOk

C7_Witness ==
    /\ last.op = "apply_batch" /\ last.ok
    /\ last.preBatch.count > 0 /\ last.preSince = 0
    /\ trees[last.tree] = EmptyMap
    /\ trees[OtherCustom(last.tree)] # EmptyMap

\* C8: list_values and iter return entries of the partition in ascending key-byte
\* order, at most one per key, and deserialize on a returned key yields the record last
\* inserted under it; when the partition is not written during the listing the entries
\* are exactly the stored ones, one per stored key.
C8_ListOrderedRoundTrip ==
    (last.op \in {"list_values", "iter_end"} /\ last.ok) =>
        LET t == last.tree
            out == last.ret
            keys == {out[i][1] : i \in 1..Len(out)}
        IN  /\ \A i, j \in 1..Len(out) : i < j => BytesLess(out[i][1], out[j][1])
            /\ keys \subseteq DOMAIN shadow[t]
            /\ \A i \in 1..Len(out) :
                   DbTreeDeserialize(trees[t], out[i][1], "TestData", TRUE)
                       = Ok(shadow[t][out[i][1]])
            /\ (scan.applies = 0) =>
                  /\ keys = DOMAIN shadow[t]
                  /\ Len(out) = Cardinality(DOMAIN shadow[t])
                  /\ out = TreeEntries(trees[t])

C8_Witness ==
    /\ last.op = "list_values" /\ last.ok /\ last.arg
    /\ scan.applies = 0
    /\ Len(last.ret) = 2
    /\ \E i \in 1..2 : last.ret[i][2] = Bytes([kind |-> "TestData", key |-> last.ret[i][1],
                                                foo |-> FooPool[2]])

\* C9: destroy attempts to drop every partition but the reserved one that existed when
\* it started, whichever drops fail, and returns normally.
C9_DestroyBestEffort ==
    (last.op = "destroy") =>
        /\ last.ok
        /\ destroying.state = "idle"
        /\ last.ret.attempted = sinceDestroy.began \ {SLED_DEFAULT_TREE}
        /\ last.ret.logged = sinceDestroy.failed
        /\ \A n \in (last.ret.attempted \ sinceDestroy.failed) \ sinceDestroy.reopened :
               n \notin treeNames /\ trees[n] = EmptyMap

C9_Witness ==
    /\ last.op = "destroy"
    /\ sinceDestroy.failed = {"foobar"}
    /\ "foobarbaz" \in sinceDestroy.full
    /\ trees["foobarbaz"] = EmptyMap
    /\ trees["foobar"] # EmptyMap

\* C10: deserialize fails when no value is stored under the key or the stored bytes
\* do not decode as the requested type; get of an absent key is Ok(None); neither
\* changes the partition.  (Both also fail when the engine's read fails.)
C10_DeserializeAndGet ==
    /\ (last.op = "deserialize") =>
          LET t == last.tree
              k == last.arg[1]
              ty == last.arg[2]
          IN  /\ trees = last.pre
              /\ last.ok <=> (last.engineOk /\ k \in DOMAIN shadow[t] /\ ty = "TestData")
              /\ last.ok => last.ret = shadow[t][k]
    /\ (last.op = "get") =>
          /\ trees = last.pre
          /\ last.ok <=> last.engineOk
          /\ (last.ok /\ last.arg \notin DOMAIN shadow[last.tree]) => last.ret = <<>>
          /\ (last.ok /\ last.arg \in DOMAIN shadow[last.tree])
                 => last.ret = <<Bytes(shadow[last.tree][last.arg])>>

C10_Witness ==
    /\ last.op = "deserialize" /\ ~last.ok /\ last.engineOk
    /\ last.arg[1] \in DOMAIN trees[last.tree]
    /\ last.arg[2] = "String"

\* the partition holds exactly the records written to it by insert and apply_batch
Committed(n) == [k \in DOMAIN shadow[n] |-> Bytes(shadow[n][k])]

\* C11: a key-derivation or serialization failure is reported before any write: a
\* failed DbTree::insert leaves the partition as it was, a failed DbBatch::insert
\* leaves the batch's pending set and its count as they were.
C11_FailureBeforeWrite ==
    /\ (last.op \in {"insert", "batch_insert"}) =>
          (last.ok <=> (last.arg.kind = "TestData" /\ last.engineOk))
    /\ (last.op = "insert" /\ ~last.ok) => trees = last.pre
    /\ (last.op = "batch_insert" /\ ~last.ok) =>
          /\ batch.writes = last.preBatch.writes
          /\ DbBatchCount(batch) = DbBatchCount(last.preBatch)
          /\ trees = last.pre

C11_Witness ==
    /\ last.op = "batch_insert" /\ ~last.ok
    /\ last.arg.kind = "BadSer"
    /\ last.preBatch.writes # EmptyMap
    /\ batch = last.preBatch

\* C12: DbBatch::insert does not touch storage: it leaves every partition as it was,
\* and what a reader gets, counts or lists is what insert and apply_batch wrote,
\* never a pair that is still pending.
C12_PendingNotVisible ==
    /\ (last.op = "batch_insert") => (trees = last.pre /\ treeNames = last.preNames)
    /\ \A n \in Names : trees[n] = Committed(n)
    /\ (last.op = "get" /\ last.ok) => last.ret = TreeGet(Committed(last.tree), last.arg)
    /\ (last.op = "len") => last.ret = Cardinality(DOMAIN shadow[last.tree])
    /\ (last.op = "iter_next" /\ last.ok) =>
          TreeGet(Committed(last.tree), last.ret[1][1]) = <<last.ret[1][2]>>
    /\ (last.op \in {"list_values", "iter_end"} /\ last.ok /\ scan.applies = 0) =>
          \A i \in 1..Len(last.ret) :
              TreeGet(Committed(last.tree), last.ret[i][1]) = <<last.ret[i][2]>>

C12_Witness ==
    /\ last.op = "get"
    /\ last.ok
    /\ last.arg \in DOMAIN batch.writes
    /\ last.ret # <<batch.writes[last.arg]>>
    /\ last.ret # <<>>

\* C13: open_tree is idempotent: a repeated open creates nothing and leaves the
\* partition's contents as they are, so what was written under a name is what len
\* and get return through a handle opened with that name, before or after the write.
C13_OpenTreeIdempotent ==
    /\ (last.op = "open_tree" /\ last.ok) =>
          /\ last.tree \in handles
          /\ treeNames = last.preNames \cup {last.tree}
          /\ trees = last.pre
    /\ (last.op = "len") => last.ret = TreeLen(Committed(last.tree))
    /\ (last.op = "get" /\ last.ok) =>
          last.ret = IF last.arg \in DOMAIN shadow[last.tree]
                     THEN <<Bytes(shadow[last.tree][last.arg])>> ELSE <<>>

C13_Witness ==
    /\ last.op = "open_tree" /\ last.ok
    /\ last.tree \in last.preNames
    /\ last.pre[last.tree] # EmptyMap
    /\ TreeLen(trees[last.tree]) = 2

\* C14: a configuration that specifies no mode opens the store with mode Fast: the
\* default configuration carries mode Fast, and its conversion sets the engine's mode
\* to the high-throughput mode that Fast maps to.
C14_DefaultModeFast ==
    (sledConfig # None) =>
        /\ (opts = DbOptsDefault) => (opts.mode = Some(DbModeDefault))
        /\ (opts.mode = None \/ opts = DbOptsDefault)
               => (sledConfig[1].mode = Some(DbModeInto(DbModeDefault)))

\* C15: in every reachable state count() equals the number of pending key/value pairs
\* held in the batch's write-set, also after several records with the same key were
\* inserted and after apply_batch took the write-set.
C15_CountIsPendingPairs == DbBatchCount(batch) = Cardinality(DOMAIN batch.writes)

C17_BadEntriesOmitted ==
    /\ (last.op = "iter_next" /\ ~last.ok /\ it.list) =>
          (it.state = "active" /\ it.seen = scan.read)
    /\ (last.op = "list_values") =>
          /\ last.arg => last.ok
          /\ (~last.ok) =>
                (~last.engineOk /\ last.ret = "open_tree" /\ treeNames = last.preNames)
          /\ last.ok =>
                LET out == last.ret
                    stored == DOMAIN last.pre[last.tree]
                IN  /\ out = scan.read
                    /\ \A i, j \in 1..Len(out) : i < j => BytesLess(out[i][1], out[j][1])
                    /\ (scan.applies = 0) =>
                          /\ Len(out) = Cardinality(stored)
                          /\ {out[i][1] : i \in 1..Len(out)} = stored
                          /\ \A i \in 1..Len(out) :
                                 out[i][2] = last.pre[last.tree][out[i][1]]

C17_Witness ==
    /\ last.op = "list_values"
    /\ last.ok
    /\ last.arg
    /\ scan.applies = 0
    /\ Len(last.ret) = 2

\* C18: apply_batch takes the batch's write-set before the engine applies it, so the
\* write-set is empty after apply_batch returns, whether it succeeded or failed; when
\* the engine rejects the application the pending pairs are neither in the partition
\* nor any longer in the batch, and applying the batch again writes nothing.
C18_WriteSetTakenEitherWay ==
    (last.op = "apply_batch") =>
        /\ batch.writes = EmptyMap
        /\ last.arg = last.preBatch.writes
        /\ last.arg = [k \in DOMAIN last.prePending |-> Bytes(last.prePending[k])]
        /\ (~last.ok) =>
              /\ trees = last.pre
              /\ \A n \in Names : trees[n] = Committed(n)
              /\ DbBatchCount(batch) = DbBatchCount(last.preBatch)
        /\ (last.preBatch.writes = EmptyMap) => trees = last.pre

C18_Witness ==
    /\ last.op = "apply_batch"
    /\ ~last.ok
    /\ last.preBatch.writes # EmptyMap
    /\ batch.writes = EmptyMap
    /\ \E k \in DOMAIN last.preBatch.writes :
           TreeGet(trees[last.tree], k) # <<last.preBatch.writes[k]>>

\* C19: apply_batch and insert on a partition change only that partition: the contents
\* and length of every other partition of the store are what they were before the call,
\* also when the same batch was earlier applied to another partition.
C19_OtherPartitionsUnchanged ==
    (last.op \in {"insert", "apply_batch"}) =>
        /\ \A n \in Names \ {last.tree} :
              /\ trees[n] = last.pre[n]
              /\ Cardinality(DOMAIN trees[n]) = Cardinality(DOMAIN last.pre[n])
        /\ treeNames = last.preNames

C19_Witness ==
    /\ last.op = "apply_batch"
    /\ last.ok
    /\ last.arg # EmptyMap
    /\ DbBatchCount(last.preBatch) > last.preSince
    /\ trees[last.tree] # last.pre[last.tree]
    /\ \E n \in CustomNames \ {last.tree} : trees[n] # EmptyMap /\ trees[n] # trees[last.tree]

\* C20: count() is the total number of successful DbBatch::insert calls since the batch
\* was created: a successful insert raises it by exactly 1, and no other operation (a
\* failed insert, take_inner, apply_batch) changes it, so it never decreases.
C20_CountOnlyGrowsByInsert ==
    /\ (last.op = "batch_insert" /\ last.ok) =>
          DbBatchCount(batch) = DbBatchCount(last.preBatch) + 1
    /\ ~(last.op = "batch_insert" /\ last.ok) =>
          DbBatchCount(batch) = DbBatchCount(last.preBatch)
    /\ DbBatchCount(batch) >= DbBatchCount(last.preBatch)
    /\ DbBatchCount(batch) >= sinceApply

C20_Witness ==
    /\ last.op = "apply_batch"
    /\ last.ok
    /\ last.arg # EmptyMap
    /\ DbBatchCount(batch) = 2
    /\ DbBatchCount(last.preBatch) > last.preSince

====
